---- MODULE Spec2Model ----
(***************************************************************************)
(* State-machine model of the concurrent crawler of src/ingest.py: the     *)
(* worker threads of listen_and_commit, the shared seen-sets and lock, the *)
(* sqlite store, the remote service as seen through get_with_retry, and    *)
(* the bootstrap of main().                                                *)
(***************************************************************************)
EXTENDS Integers, Sequences, FiniteSets, TLC

\* ---------------------------------------------------------------- bounds
\* Keys in keys.txt, one worker thread each.
NumWorkers == 2
\* Participants of a complete match payload (10 in the game), scaled down.
FullSize == 2
NumMatches == 2
MaxRuns == 2
CallCap == 2

\* ------------------------------------------------------ program constants
REQUEST_RETRY_COUNT == 5

\* ------------------------------------------------------------- the world
NumPlayers == FullSize + 1
Workers == 1..NumWorkers
Players == 1..NumPlayers
MatchIds == 1..NumMatches
NoMatch == 0
NoPlayer == 0
NoWorker == 0

\* The participants the remote service lists for match m (FullSize players).
MatchPlayers(m) == [i \in 1..FullSize |-> ((m + i - 2) % NumPlayers) + 1]

RECURSIVE MatchesOf(_, _)
MatchesOf(p, m) ==
    IF m > NumMatches THEN <<>>
    ELSE (IF \E i \in 1..FullSize : MatchPlayers(m)[i] = p THEN <<m>> ELSE <<>>)
         \o MatchesOf(p, m + 1)

\* The match ids the remote service lists for player p.
History(p) == MatchesOf(p, 1)

Kinds == {"valid", "short", "aram", "custom", "bot", "malformed"}

\* The match detail payload the remote service holds for match m.
Payload(m, kind) ==
    [wellFormed |-> kind # "malformed",
     matchId |-> m,
     gameMode |-> IF kind = "aram" THEN "ARAM" ELSE "CLASSIC",
     gameType |-> IF kind = "custom" THEN "CUSTOM_GAME" ELSE "MATCHED_GAME",
     participants |->
        [i \in 1..(IF kind = "short" THEN FullSize - 1 ELSE FullSize) |->
            [summonerName |-> MatchPlayers(m)[i],
             summonerId |-> IF kind = "bot" /\ i = 1 THEN "BOT" ELSE "ID"]]]

\* --------------------------------------------------------- get_with_retry
TransientStatuses == {429, 500, 503}

RECURSIVE Rep(_, _)
Rep(x, n) == IF n = 0 THEN <<>> ELSE <<x>> \o Rep(x, n - 1)

\* The statuses the service answers to the successive attempts of one call.
Scripts ==
    { Rep(t, k) \o <<f>> : t \in TransientStatuses,
                           k \in 0..(REQUEST_RETRY_COUNT + 1),
                           f \in {200, 403, 404} }

BodiesOf(s) ==
    IF s[Len(s)] = 200 THEN {"ok", "malformed"}
    ELSE IF s[Len(s)] = 404 THEN {"summoner not found", "other"}
    ELSE {"other"}

Responses ==
    UNION { { [statuses |-> s, body |-> b] : b \in BodiesOf(s) } : s \in Scripts }

\* The loop with one retry too many.
RECURSIVE RetryLoop_OneMore(_, _, _)
RetryLoop_OneMore(statuses, pos, retry_attempts) ==
    IF statuses[pos] \in TransientStatuses /\ retry_attempts <= REQUEST_RETRY_COUNT
    THEN RetryLoop_OneMore(statuses, pos + 1, retry_attempts + 1)
    ELSE [exit |-> FALSE, status_code |-> statuses[pos], requests |-> pos]

\* Lines 56-61: the retry loop, from the answer to request number pos.
RECURSIVE RetryLoop(_, _, _)
RetryLoop(statuses, pos, retry_attempts) ==
    IF statuses[pos] \in TransientStatuses /\ retry_attempts < REQUEST_RETRY_COUNT
    THEN RetryLoop(statuses, pos + 1, retry_attempts + 1)
    ELSE [exit |-> FALSE, status_code |-> statuses[pos], requests |-> pos]

FirstIs403(statuses) == statuses[1] = 403

get_with_retry(statuses) ==
    IF FirstIs403(statuses)
    THEN [exit |-> TRUE, status_code |-> 403, requests |-> 1]
    ELSE RetryLoop(statuses, 1, 0)

\* requests.Response.raise_for_status
raise_for_status(status_code) == status_code >= 400

get_player_info_by_summoner_name(r) ==
    LET req == get_with_retry(r.statuses) IN
    IF req.exit THEN "SystemExit"
    ELSE IF req.status_code = 404 /\ r.body = "summoner not found"
         THEN "SummonerNotFoundException"
    ELSE IF raise_for_status(req.status_code) THEN "HTTPError"
    ELSE IF r.body # "ok" THEN "KeyError"
    ELSE "ok"

\* get_matches_by_puuid, get_match_by_match_id, get_champion_mastery
get_json(r) ==
    LET req == get_with_retry(r.statuses) IN
    IF req.exit THEN "SystemExit"
    ELSE IF raise_for_status(req.status_code) THEN "HTTPError"
    ELSE "ok"

\* ------------------------------------------------------------------ state
VARIABLES
    pc, phase, lock, match_ids, match, last_valid_match, idx, name, exiting,
    seed, seen_players, seen_matches, seen_masteries,
    dbMatches, dbParticipants, dbSeenPlayers, dbMastery,
    served, exc, excStatus, diedIn, forbiddenIn, reqAfter403,
    masteryCalls, detailCalls, lookupCalls, bootMatches, run, mainpc,
    lastCall, recordCalls

vars == <<pc, phase, lock, match_ids, match, last_valid_match, idx, name,
          exiting, seed, seen_players, seen_matches, seen_masteries,
          dbMatches, dbParticipants, dbSeenPlayers, dbMastery,
          served, exc, excStatus, diedIn, forbiddenIn, reqAfter403,
          masteryCalls, detailCalls, lookupCalls, bootMatches, run, mainpc,
          lastCall, recordCalls>>

workerLocals == <<match_ids, match, last_valid_match, idx, name>>
seenSets == <<seen_players, seen_matches, seen_masteries>>
store == <<dbMatches, dbParticipants, dbSeenPlayers, dbMastery>>
counters == <<masteryCalls, detailCalls, lookupCalls>>

\* No call of the remote service or of process_match observed yet.
NoCall == [op |-> "none", statuses |-> <<>>, result |-> "none"]

\* The `players` list of main(), one per key.
DefaultPlayers == [w \in Workers |-> w]

Fresh(v) == [w \in Workers |-> v]

InitState ==
    /\ pc = Fresh("start")
    /\ phase = Fresh("SEEDING")
    /\ lock = NoWorker
    /\ match_ids = Fresh(<<>>)
    /\ match = Fresh(NoMatch)
    /\ last_valid_match = Fresh(NoMatch)
    /\ idx = Fresh(0)
    /\ name = Fresh(NoPlayer)
    /\ exiting = Fresh(FALSE)
    /\ seed = DefaultPlayers
    /\ exc = Fresh("none")
    /\ excStatus = Fresh(0)
    /\ diedIn = Fresh("none")
    /\ forbiddenIn = Fresh("none")
    /\ reqAfter403 = Fresh(FALSE)
    /\ masteryCalls = [p \in Players |-> 0]
    /\ detailCalls = [m \in MatchIds |-> 0]
    /\ lookupCalls = [p \in Players |-> 0]
    /\ lastCall = Fresh(NoCall)
    /\ seen_players = {}
    /\ seen_matches = {}
    /\ seen_masteries = {}
    /\ dbMatches = {}
    /\ dbParticipants = [m \in MatchIds |-> 0]
    /\ dbSeenPlayers = {}
    /\ dbMastery = {}
    /\ served = [m \in MatchIds |-> "none"]
    /\ bootMatches = {}
    /\ run = 1
    /\ mainpc = "running"

Init == InitState /\ recordCalls = FALSE

\* ------------------------------------------------------- shared helpers
Bump(f, k) == [f EXCEPT ![k] = IF @ < CallCap THEN @ + 1 ELSE @]

\* A response that carries a 403, on the first attempt or on a retry.
Saw403(r) ==
    LET req == get_with_retry(r.statuses) IN req.exit \/ req.status_code = 403

NoteResponse(w, r) ==
    forbiddenIn' = [forbiddenIn EXCEPT
                      ![w] = IF @ = "none" /\ Saw403(r) THEN phase[w] ELSE @]

\* The worker sends a request to the remote service.
NoteRequest(w) ==
    reqAfter403' = [reqAfter403 EXCEPT ![w] = @ \/ forbiddenIn[w] # "none"]

\* An exception leaves listen_and_commit: the thread ends.
ThreadDiesIn(w, e, status, ph) ==
    /\ pc' = [pc EXCEPT ![w] = "dead"]
    /\ phase' = [phase EXCEPT ![w] = "TERMINATED"]
    /\ exc' = [exc EXCEPT ![w] = e]
    /\ excStatus' = [excStatus EXCEPT ![w] = status]
    /\ diedIn' = [diedIn EXCEPT ![w] = ph]

ThreadDies(w, e, status) == ThreadDiesIn(w, e, status, phase[w])

NoDeath == UNCHANGED <<exc, excStatus, diedIn>>

\* The finally clause of the loop: a refill when the queue is empty; after
\* it a pending SystemExit ends the thread, anything else loops.
AfterTry(w, queue, sysexit) ==
    /\ exiting' = [exiting EXCEPT ![w] = sysexit]
    /\ IF Len(queue) = 0
       THEN pc' = [pc EXCEPT ![w] = "refill_acquire"] /\ UNCHANGED phase /\ NoDeath
       ELSE IF sysexit
            THEN ThreadDies(w, "SystemExit", 403)
            ELSE pc' = [pc EXCEPT ![w] = "pop"] /\ UNCHANGED phase /\ NoDeath

StatusOf(r) == get_with_retry(r.statuses).status_code

\* The statuses one call of get_with_retry has received.
Received(r) == SubSeq(r.statuses, 1, get_with_retry(r.statuses).requests)

\* Observation of a call and of how it ended, where calls are recorded.
Record(w, op, statuses, result) ==
    lastCall' = IF recordCalls
                THEN [lastCall EXCEPT ![w] = [op |-> op, statuses |-> statuses,
                                              result |-> result]]
                ELSE lastCall

\* ---------------------------------------------- add_player_match_history
\* The lookup sent without the player added to seen_players.
BeginHistory_NoMark(w, p) ==
    /\ UNCHANGED seen_players
    /\ name' = [name EXCEPT ![w] = p]
    /\ pc' = [pc EXCEPT ![w] = "aph_lookup"]
    /\ lookupCalls' = Bump(lookupCalls, p)
    /\ NoteRequest(w)

\* First half: mark the player seen and send the lookup by name.
BeginHistory(w, p) ==
    /\ seen_players' = seen_players \cup {p}
    /\ name' = [name EXCEPT ![w] = p]
    /\ pc' = [pc EXCEPT ![w] = "aph_lookup"]
    /\ lookupCalls' = Bump(lookupCalls, p)
    /\ NoteRequest(w)

\* No exception of add_player_match_history caught by the refill.
HistoryRaises_NoCatch(w, e, status) ==
    /\ ThreadDies(w, e, status)
    /\ UNCHANGED <<idx, lock, exiting>>

\* An exception leaves add_player_match_history while the lock is held.
HistoryRaises(w, e, status) ==
    IF phase[w] = "REFILLING" /\ e = "SummonerNotFoundException"
    THEN /\ idx' = [idx EXCEPT ![w] = @ + 1]
         /\ pc' = [pc EXCEPT ![w] = "refill_loop"]
         /\ UNCHANGED <<phase, lock, exiting>>
         /\ NoDeath
    ELSE /\ ThreadDies(w, e, status)
         /\ UNCHANGED <<idx, lock, exiting>>

\* Lines 321-324: the seeding section.
SeedAcquire(w) ==
    /\ pc[w] = "start"
    /\ lock = NoWorker
    /\ lock' = w
    /\ BeginHistory(w, seed[w])
    /\ UNCHANGED <<phase, match_ids, match, last_valid_match, idx, exiting, seed,
                   seen_matches, seen_masteries, store, served, exc, excStatus,
                   diedIn, forbiddenIn, masteryCalls, detailCalls, bootMatches,
                   run, mainpc, lastCall, recordCalls>>

\* The answer to the lookup by name, then the SeenPlayers insert and the
\* request for the match ids.
LookupResponse(w) ==
    /\ pc[w] = "aph_lookup"
    /\ \E r \in Responses, dbok \in BOOLEAN :
         LET res == get_player_info_by_summoner_name(r) IN
         /\ NoteResponse(w, r)
         /\ Record(w, "get_player_info_by_summoner_name", Received(r),
                   IF res = "ok" /\ ~dbok THEN "DBError" ELSE res)
         /\ IF res = "ok" /\ dbok
            THEN /\ dbSeenPlayers' = dbSeenPlayers \cup {name[w]}
                 /\ pc' = [pc EXCEPT ![w] = "aph_history"]
                 /\ NoteRequest(w)
                 /\ UNCHANGED <<phase, idx, lock, exiting>>
                 /\ NoDeath
            ELSE /\ HistoryRaises(w, IF res = "ok" THEN "DBError" ELSE res,
                                  IF res = "ok" THEN 0 ELSE StatusOf(r))
                 /\ UNCHANGED <<dbSeenPlayers, reqAfter403>>
    /\ UNCHANGED <<match_ids, match, last_valid_match, name, seed, seenSets,
                   dbMatches, dbParticipants, dbMastery, served, counters,
                   bootMatches, run, mainpc, recordCalls>>

\* Every id of the history enqueued, seen or not.
Unseen_NoFilter(match_data, seen) == match_data

\* Lines 300-302: the ids of the history that are not in seen_matches.
RECURSIVE Unseen(_, _)
Unseen(match_data, seen) ==
    IF match_data = <<>> THEN <<>>
    ELSE (IF Head(match_data) \notin seen THEN <<Head(match_data)>> ELSE <<>>)
         \o Unseen(Tail(match_data), seen)

\* The answer to the request for the match ids, then the enqueueing.
HistoryResponse(w) ==
    /\ pc[w] = "aph_history"
    /\ \E r \in Responses :
         LET res == get_json(r) IN
         /\ NoteResponse(w, r)
         /\ Record(w, "get_matches_by_puuid", Received(r), res)
         /\ IF res = "ok"
            THEN /\ match_ids' = [match_ids EXCEPT
                        ![w] = @ \o Unseen(History(name[w]), seen_matches)]
                 /\ NoDeath
                 /\ UNCHANGED exiting
                 /\ IF phase[w] = "SEEDING"
                    THEN /\ lock' = NoWorker
                         /\ phase' = [phase EXCEPT ![w] = "DRAINING"]
                         /\ pc' = [pc EXCEPT ![w] = "pop"]
                         /\ UNCHANGED idx
                    ELSE /\ idx' = [idx EXCEPT ![w] = @ + 1]
                         /\ pc' = [pc EXCEPT ![w] = "refill_loop"]
                         /\ UNCHANGED <<lock, phase>>
            ELSE /\ ThreadDies(w, res, StatusOf(r))
                 /\ UNCHANGED <<match_ids, idx, lock, exiting>>
    /\ UNCHANGED <<match, last_valid_match, name, seed, seenSets, store, served,
                   reqAfter403, counters, bootMatches, run, mainpc, recordCalls>>


\* ------------------------------------------------------ the draining loop
\* Line 329: match_ids.popleft(); IndexError on an empty queue.
Pop(w) ==
    /\ pc[w] = "pop"
    /\ IF Len(match_ids[w]) = 0
       THEN /\ AfterTry(w, match_ids[w], FALSE)
            /\ UNCHANGED <<match_ids, match>>
       ELSE /\ match' = [match EXCEPT ![w] = Head(match_ids[w])]
            /\ match_ids' = [match_ids EXCEPT ![w] = Tail(@)]
            /\ pc' = [pc EXCEPT ![w] = "check"]
            /\ UNCHANGED <<phase, exiting>>
            /\ NoDeath
    /\ UNCHANGED <<lock, last_valid_match, idx, name, seed, seenSets, store,
                   served, forbiddenIn, reqAfter403, counters, bootMatches, run,
                   mainpc, lastCall, recordCalls>>

\* The check of line 333 left out.
AlreadySeen_NoCheck(m, seen) == FALSE

AlreadySeen(m, seen) == m \in seen

\* Lines 332-347: the check of the dequeued id under the lock, then the
\* request for the match detail.
CheckSeen(w) ==
    /\ pc[w] = "check"
    /\ lock = NoWorker
    /\ IF AlreadySeen(match[w], seen_matches)
       THEN /\ AfterTry(w, match_ids[w], FALSE)
            /\ UNCHANGED <<lock, seen_matches, detailCalls, reqAfter403>>
       ELSE /\ seen_matches' = seen_matches \cup {match[w]}
            /\ \E dbok \in BOOLEAN :
                 IF dbok
                 THEN /\ pc' = [pc EXCEPT ![w] = "fetch"]
                      /\ detailCalls' = Bump(detailCalls, match[w])
                      /\ NoteRequest(w)
                      /\ UNCHANGED <<lock, phase, exiting>>
                      /\ NoDeath
                 ELSE /\ lock' = w
                      /\ AfterTry(w, match_ids[w], FALSE)
                      /\ UNCHANGED <<detailCalls, reqAfter403>>
    /\ UNCHANGED <<match_ids, match, last_valid_match, idx, name, seed,
                   seen_players, seen_masteries, store, served, forbiddenIn,
                   masteryCalls, lookupCalls, bootMatches, run, mainpc,
                   lastCall, recordCalls>>

\* Matches(matchId PK, ...): an INSERT of a match id that has a row raises
\* sqlite3.IntegrityError.
InsertRaises(rows, m) == m \in rows

\* The filter without its test of the participants' summonerId.
Accepted_NoBotTest(data) ==
    /\ data.gameMode = "CLASSIC"
    /\ data.gameType = "MATCHED_GAME"

\* Lines 349-351: the filter on the fetched payload.
Accepted(data) ==
    /\ data.gameMode = "CLASSIC"
    /\ data.gameType = "MATCHED_GAME"
    /\ \A i \in DOMAIN data.participants :
          data.participants[i].summonerId # "BOT"

\* The answer to the request for the match detail; for an accepted payload
\* the Matches insert of process_match.
DetailResponse(w) ==
    /\ pc[w] = "fetch"
    /\ \E r \in Responses, kind \in Kinds, dbok \in BOOLEAN :
         LET res == get_json(r)
             data == Payload(match[w], kind)
             stored == dbok /\ ~InsertRaises(dbMatches, match[w]) IN
         /\ NoteResponse(w, r)
         /\ served[match[w]] \in {"none", kind}
         /\ Record(w, "get_match_by_match_id", Received(r),
                   IF res # "ok" THEN res
                   ELSE IF ~data.wellFormed THEN "KeyError"
                   ELSE IF ~Accepted(data) THEN "skipped"
                   ELSE IF ~stored THEN "DBError"
                   ELSE "ok")
         /\ IF res = "ok"
            THEN /\ served' = [served EXCEPT ![match[w]] = kind]
                 /\ IF data.wellFormed /\ Accepted(data)
                    THEN /\ last_valid_match' =
                               [last_valid_match EXCEPT ![w] = match[w]]
                         /\ IF stored
                            THEN /\ dbMatches' = dbMatches \cup {match[w]}
                                 /\ idx' = [idx EXCEPT ![w] = 1]
                                 /\ pc' = [pc EXCEPT ![w] = "pm_loop"]
                                 /\ UNCHANGED <<phase, exiting>>
                                 /\ NoDeath
                            ELSE /\ AfterTry(w, match_ids[w], FALSE)
                                 /\ UNCHANGED <<dbMatches, idx>>
                    ELSE /\ AfterTry(w, match_ids[w], FALSE)
                         /\ UNCHANGED <<last_valid_match, dbMatches, idx>>
            ELSE /\ AfterTry(w, match_ids[w], res = "SystemExit")
                 /\ UNCHANGED <<served, last_valid_match, dbMatches, idx>>
    /\ UNCHANGED <<lock, match_ids, match, name, seed, seenSets, dbParticipants,
                   dbSeenPlayers, dbMastery, reqAfter403, counters, bootMatches,
                   run, mainpc, recordCalls>>

MasteryKnown(p, seen) == p \in seen

\* Lines 245-265: one turn of the participant loop of process_match, up to
\* the request for the mastery of the participant.
ProcessParticipant(w) ==
    /\ pc[w] = "pm_loop"
    /\ LET parts == Payload(match[w], served[match[w]]).participants IN
       IF idx[w] > Len(parts)
       THEN /\ AfterTry(w, match_ids[w], FALSE)
            /\ UNCHANGED <<dbParticipants, name, idx, masteryCalls, reqAfter403>>
       ELSE /\ dbParticipants' = [dbParticipants EXCEPT ![match[w]] = @ + 1]
            /\ name' = [name EXCEPT ![w] = parts[idx[w]].summonerName]
            /\ UNCHANGED <<phase, exiting>>
            /\ NoDeath
            /\ IF MasteryKnown(parts[idx[w]].summonerName, seen_masteries)
               THEN /\ idx' = [idx EXCEPT ![w] = @ + 1]
                    /\ UNCHANGED <<pc, masteryCalls, reqAfter403>>
               ELSE /\ pc' = [pc EXCEPT ![w] = "pm_mastery"]
                    /\ masteryCalls' = Bump(masteryCalls, parts[idx[w]].summonerName)
                    /\ NoteRequest(w)
                    /\ UNCHANGED idx
    /\ UNCHANGED <<lock, match_ids, match, last_valid_match, seed, seenSets,
                   dbMatches, dbSeenPlayers, dbMastery, served, forbiddenIn,
                   detailCalls, lookupCalls, bootMatches, run, mainpc,
                   lastCall, recordCalls>>

\* Lines 264-273: the answer to the mastery request.
MasteryResponse(w) ==
    /\ pc[w] = "pm_mastery"
    /\ \E r \in Responses :
         LET res == get_json(r) IN
         /\ NoteResponse(w, r)
         /\ Record(w, "get_champion_mastery", Received(r), res)
         /\ IF res = "ok"
            THEN /\ dbMastery' = dbMastery \cup {name[w]}
                 /\ seen_masteries' = seen_masteries \cup {name[w]}
                 /\ idx' = [idx EXCEPT ![w] = @ + 1]
                 /\ pc' = [pc EXCEPT ![w] = "pm_loop"]
                 /\ UNCHANGED <<phase, exiting>>
                 /\ NoDeath
            ELSE /\ AfterTry(w, match_ids[w], res = "SystemExit")
                 /\ UNCHANGED <<dbMastery, seen_masteries, idx>>
    /\ UNCHANGED <<lock, match_ids, match, last_valid_match, name, seed,
                   seen_players, seen_matches, dbMatches, dbParticipants,
                   dbSeenPlayers, served, reqAfter403, counters, bootMatches,
                   run, mainpc, recordCalls>>

\* --------------------------------------------------------------- refilling
\* Lines 386-395: the queue is empty, take the lock and the last accepted
\* match; subscripting None raises TypeError inside the finally clause.
RefillAcquire(w) ==
    /\ pc[w] = "refill_acquire"
    /\ lock = NoWorker
    /\ lock' = w
    /\ IF last_valid_match[w] = NoMatch
       THEN /\ ThreadDiesIn(w, "TypeError", 0, "REFILLING")
            /\ UNCHANGED idx
       ELSE /\ phase' = [phase EXCEPT ![w] = "REFILLING"]
            /\ idx' = [idx EXCEPT ![w] = 1]
            /\ pc' = [pc EXCEPT ![w] = "refill_loop"]
            /\ NoDeath
    /\ UNCHANGED <<match_ids, match, last_valid_match, name, exiting, seed,
                   seenSets, store, served, forbiddenIn, reqAfter403, counters,
                   bootMatches, run, mainpc, lastCall, recordCalls>>

PlayerKnown(p, seen) == p \in seen

\* Lines 396-407: one turn of the participant loop of the refill, and the
\* release of the lock at its end.
RefillStep(w) ==
    /\ pc[w] = "refill_loop"
    /\ LET parts == Payload(last_valid_match[w],
                            served[last_valid_match[w]]).participants IN
       IF idx[w] > Len(parts)
       THEN /\ lock' = NoWorker
            /\ IF exiting[w]
               THEN ThreadDies(w, "SystemExit", 403)
               ELSE /\ pc' = [pc EXCEPT ![w] = "pop"]
                    /\ phase' = [phase EXCEPT ![w] = "DRAINING"]
                    /\ NoDeath
            /\ UNCHANGED <<idx, name, seen_players, reqAfter403, lookupCalls>>
       ELSE IF PlayerKnown(parts[idx[w]].summonerName, seen_players)
            THEN /\ idx' = [idx EXCEPT ![w] = @ + 1]
                 /\ UNCHANGED <<pc, phase, lock, name, seen_players, reqAfter403,
                                lookupCalls>>
                 /\ NoDeath
            ELSE /\ BeginHistory(w, parts[idx[w]].summonerName)
                 /\ UNCHANGED <<phase, lock, idx>>
                 /\ NoDeath
    /\ UNCHANGED <<match_ids, match, last_valid_match, exiting, seed,
                   seen_matches, seen_masteries, store, served, forbiddenIn,
                   masteryCalls, detailCalls, bootMatches, run, mainpc,
                   lastCall, recordCalls>>


\* -------------------------------------------------------------- main()
\* Lines 425-432: the seen-sets re-populated from the store.
LoadSeenPlayers(rows) == rows

\* seen_matches started empty instead of from the Matches table.
LoadSeenMatches_Empty(rows) == {}

LoadSeenMatches(rows) == rows
LoadSeenMasteries(rows) == rows

\* SELECT DISTINCT summonerName from Participants
ParticipantNames ==
    UNION { { Payload(m, served[m]).participants[i].summonerName :
                i \in 1..dbParticipants[m] } :
            m \in {x \in MatchIds : dbParticipants[x] > 0} }

\* Lines 457-463: the samples of the pool that end the while loop.
SeedChoices ==
    IF Cardinality(LoadSeenMatches(dbMatches)) > 0
    THEN { f \in [Workers -> ParticipantNames \ LoadSeenPlayers(dbSeenPlayers)] :
             \A v, w \in Workers : v # w => f[v] # f[w] }
    ELSE {DefaultPlayers}

AllJoined == \A w \in Workers : pc[w] = "dead"

\* Lines 476-484 and 410-474: every thread has ended, join returns, and the
\* loop of __main__ calls main() again.
Restart ==
    /\ mainpc = "running"
    /\ AllJoined
    /\ run < MaxRuns
    /\ \E seeds \in SeedChoices :
         /\ seed' = seeds
         /\ pc' = Fresh("start")
         /\ phase' = Fresh("SEEDING")
         /\ lock' = NoWorker
         /\ match_ids' = Fresh(<<>>)
         /\ match' = Fresh(NoMatch)
         /\ last_valid_match' = Fresh(NoMatch)
         /\ idx' = Fresh(0)
         /\ name' = Fresh(NoPlayer)
         /\ exiting' = Fresh(FALSE)
         /\ exc' = Fresh("none")
         /\ excStatus' = Fresh(0)
         /\ diedIn' = Fresh("none")
         /\ forbiddenIn' = Fresh("none")
         /\ reqAfter403' = Fresh(FALSE)
         /\ masteryCalls' = [p \in Players |-> 0]
         /\ detailCalls' = [m \in MatchIds |-> 0]
         /\ lookupCalls' = [p \in Players |-> 0]
         /\ lastCall' = Fresh(NoCall)
         /\ seen_players' = LoadSeenPlayers(dbSeenPlayers)
         /\ seen_matches' = LoadSeenMatches(dbMatches)
         /\ seen_masteries' = LoadSeenMasteries(dbMastery)
         /\ bootMatches' = dbMatches
         /\ run' = run + 1
    /\ UNCHANGED <<store, served, mainpc, recordCalls>>

\* Lines 461-463: no sample of the pool ends the selection (ValueError of
\* random.sample caught by the loop of __main__, or the while loop).
SeedSelectionHangs ==
    /\ mainpc = "running"
    /\ AllJoined
    /\ run < MaxRuns
    /\ SeedChoices = {}
    /\ mainpc' = "selecting"
    /\ UNCHANGED <<pc, phase, lock, workerLocals, exiting, seed, seenSets, store,
                   served, exc, excStatus, diedIn, forbiddenIn, reqAfter403,
                   counters, bootMatches, run, lastCall, recordCalls>>

Next ==
    \/ \E w \in Workers : SeedAcquire(w)
    \/ \E w \in Workers : LookupResponse(w)
    \/ \E w \in Workers : HistoryResponse(w)
    \/ \E w \in Workers : Pop(w)
    \/ \E w \in Workers : CheckSeen(w)
    \/ \E w \in Workers : DetailResponse(w)
    \/ \E w \in Workers : ProcessParticipant(w)
    \/ \E w \in Workers : MasteryResponse(w)
    \/ \E w \in Workers : RefillAcquire(w)
    \/ \E w \in Workers : RefillStep(w)
    \/ Restart
    \/ SeedSelectionHangs

Spec == Init /\ [][Next]_vars

\* ------------------------------------------- one worker, calls recorded
\* process_match called with the payload of a match whose Matches row
\* exists: the INSERT of lines 224-232 is its first statement.
CallProcessMatch(w) ==
    /\ pc[w] = "pop"
    /\ \E m \in MatchIds :
         /\ served[m] # "none"
         /\ Payload(m, served[m]).wellFormed
         /\ InsertRaises(dbMatches, m)
         /\ Record(w, "process_match", <<m>>, "IntegrityError")
    /\ UNCHANGED <<pc, phase, lock, workerLocals, exiting, seed, seenSets, store,
                   served, exc, excStatus, diedIn, forbiddenIn, reqAfter403,
                   counters, bootMatches, run, mainpc, recordCalls>>

InitRecorded == InitState /\ recordCalls = TRUE

\* Worker w runs while the other threads have not been scheduled yet.
Solo(w) == \A v \in Workers \ {w} : pc[v] = "start"

OneWorkerNext ==
    \/ \E w \in Workers : Solo(w) /\ SeedAcquire(w)
    \/ \E w \in Workers : Solo(w) /\ LookupResponse(w)
    \/ \E w \in Workers : Solo(w) /\ HistoryResponse(w)
    \/ \E w \in Workers : Solo(w) /\ Pop(w)
    \/ \E w \in Workers : Solo(w) /\ CheckSeen(w)
    \/ \E w \in Workers : Solo(w) /\ DetailResponse(w)
    \/ \E w \in Workers : Solo(w) /\ ProcessParticipant(w)
    \/ \E w \in Workers : Solo(w) /\ MasteryResponse(w)
    \/ \E w \in Workers : Solo(w) /\ RefillAcquire(w)
    \/ \E w \in Workers : Solo(w) /\ RefillStep(w)
    \/ \E w \in Workers : Solo(w) /\ CallProcessMatch(w)

OneWorkerSpec == InitRecorded /\ [][OneWorkerNext]_vars

TypeOK ==
    /\ pc \in [Workers -> {"start", "aph_lookup", "aph_history", "pop", "check",
                           "fetch", "pm_loop", "pm_mastery", "refill_acquire",
                           "refill_loop", "dead"}]
    /\ lock \in Workers \cup {NoWorker}
    /\ seen_matches \subseteq MatchIds
    /\ seen_players \subseteq Players
    /\ seen_masteries \subseteq Players
    /\ \A m \in MatchIds : dbParticipants[m] \in 0..FullSize


\* ------------------------------------------------------------ properties
InFlight == {"aph_lookup", "aph_history", "fetch", "pm_mastery"}

Range(q) == {q[i] : i \in DOMAIN q}

\* C1: when a worker receives a Forbidden response, in whatever phase, only
\* that worker stops: it does not keep the lock, so every other worker can
\* still acquire it and go on dequeuing and processing.
C1_FatalIsolation ==
    \A w \in Workers :
        (forbiddenIn[w] # "none" /\ pc[w] = "dead") => lock # w

\* C2: in every state of the store a match id is either absent from Matches
\* with no Participants rows, or present with all of its Participants rows
\* (the 10 of a complete match, FullSize here).
C2_PerMatchAtomicity ==
    \A m \in MatchIds :
        IF m \in dbMatches
        THEN dbParticipants[m] = FullSize
        ELSE dbParticipants[m] = 0

\* C3: no worker has a remote request in flight while it holds the lock.
C3_NoNetworkUnderLock ==
    \A w \in Workers : pc[w] \in InFlight => lock # w

\* C4: within one run the mastery endpoint is called at most once for every
\* player, under every interleaving of the workers.
C4_MasteryFetchOnce ==
    \A p \in Players : masteryCalls[p] <= 1

\* C5: across all workers of one run the detail of a match id is requested at
\* most once; an id is in seen_matches before its detail is requested, and a
\* dequeued id that is already in seen_matches is skipped with the lock
\* released, no request sent and the worker still running.
C5_DetailFetchedOnce ==
    /\ [](/\ \A m \in MatchIds : detailCalls[m] <= 1
          /\ \A w \in Workers : pc[w] = "fetch" => match[w] \in seen_matches)
    /\ [][\A w \in Workers :
            (pc[w] = "check" /\ match[w] \in seen_matches /\ pc'[w] # "check")
            => /\ detailCalls' = detailCalls
               /\ lock' = NoWorker
               /\ pc'[w] \in {"pop", "refill_acquire"}]_vars

\* Two workers dequeued the same id, both are past the check, and its detail
\* was requested once: one of them skipped it.
C5_Witness ==
    \E v, w \in Workers :
        /\ v # w
        /\ match[v] # NoMatch
        /\ match[v] = match[w]
        /\ pc[v] \notin {"check", "dead"}
        /\ pc[w] \notin {"check", "dead"}
        /\ lock = NoWorker
        /\ detailCalls[match[v]] = 1

\* C6: after a bootstrap from a store that already holds match M, no worker
\* requests the detail of M during that run, also when M is in the history
\* fetched for a seed player or for a player expanded later.
C6_NoRefetchAfterBootstrap ==
    \A m \in bootMatches : detailCalls[m] = 0

\* A run bootstrapped from a store holding M, where a worker has fetched the
\* history of its seed player, M is in that history and M was not enqueued.
C6_Witness ==
    \E w \in Workers : \E m \in bootMatches :
        /\ run > 1
        /\ phase[w] = "DRAINING"
        /\ m \in Range(History(seed[w]))
        /\ m \notin Range(match_ids[w])
        /\ match[w] = NoMatch

\* C7: a payload with fewer participants than a complete match (10, FullSize
\* here) is never persisted: no Matches row and no Participants row.
C7_CompletenessFilter ==
    \A m \in MatchIds :
        (m \in dbMatches \/ dbParticipants[m] > 0)
        => Len(Payload(m, served[m]).participants) = FullSize

\* C8: a worker stops only because it received a Forbidden response; no other
\* failure ends its loop.
C8_OnlyForbiddenStops ==
    \A w \in Workers : pc[w] = "dead" => exc[w] = "SystemExit"

\* C9: a 403 answering any attempt of any request of a worker is immediately
\* fatal for it: the worker is terminated and has sent no request since.
C9_ForbiddenImmediatelyFatal ==
    \A w \in Workers :
        forbiddenIn[w] # "none" => (pc[w] = "dead" /\ ~reqAfter403[w])

\* C10: exhausting the retries on a transient status (429, 500, 503) never
\* ends the worker, whatever request it was.
C10_TransientIsRecoverable ==
    \A w \in Workers :
        pc[w] = "dead"
        => ~(exc[w] = "HTTPError" /\ excStatus[w] \in TransientStatuses)

\* C12: a worker that finds its queue empty before it has accepted any match
\* (last_valid_match unset) does not stop and does not keep the lock from
\* the other workers: the step it takes at the refill leaves it running and
\* the lock not held by a stopped worker.
C12_UnsetRefillReseeds ==
    [][\A w \in Workers :
         (pc[w] = "refill_acquire" /\ last_valid_match[w] = NoMatch
          /\ pc'[w] # pc[w])
         => (pc'[w] # "dead" /\ lock' # w)]_vars

\* C14: no reachable state has a live worker waiting for the lock while the
\* lock can never be released again (held by a terminated worker, or by the
\* waiting worker itself), a state in which the join never returns and
\* nothing restarts the crawl.
C14_NoWaitForever ==
    \A w \in Workers :
        pc[w] \in {"start", "check", "refill_acquire"}
        => (lock = NoWorker \/ (lock # w /\ pc[lock] # "dead"))

PendingCount(m) ==
    Cardinality({ <<w, i>> \in Workers \X (1..NumMatches * NumPlayers) :
                    i <= Len(match_ids[w]) /\ match_ids[w][i] = m })

\* C17: at every moment each match id occurs at most once over all pending
\* queues of all workers, and every pending id is in seen_matches.
C17_PendingOnceAndSeen ==
    \A m \in MatchIds :
        /\ PendingCount(m) <= 1
        /\ PendingCount(m) > 0 => m \in seen_matches

\* C18: within one run the account lookup of a player is made at most once,
\* across all workers and interleavings, seeds included.
C18_LookupOncePerPlayer ==
    \A p \in Players : lookupCalls[p] <= 1

\* C20: the bootstrap always finishes seed selection: the orchestrator is
\* never left selecting, and the workers it started have distinct seeds.
C20_SelectionEnds ==
    /\ mainpc = "running"
    /\ \A v, w \in Workers : v # w => seed[v] # seed[w]

\* The payload served for match m is a CLASSIC MATCHED_GAME without BOT.
Eligible(m) ==
    LET d == Payload(m, served[m]) IN
    /\ d.wellFormed
    /\ d.gameMode = "CLASSIC"
    /\ d.gameType = "MATCHED_GAME"
    /\ \A i \in DOMAIN d.participants : d.participants[i].summonerId # "BOT"

\* C13: a match is in the store only if its payload is CLASSIC, MATCHED_GAME
\* and without BOT; a fetched match that is rejected is in seen_matches, not
\* in the store and nobody's last_valid_match; last_valid_match changes only
\* to the match a worker has just fetched and accepted, and a refill expands
\* participants of last_valid_match.
C13_OnlyAcceptedPersisted ==
    /\ [](/\ \A m \in MatchIds :
               (m \in dbMatches \/ dbParticipants[m] > 0) => Eligible(m)
          /\ \A m \in MatchIds :
               (served[m] # "none" /\ ~Eligible(m))
               => /\ m \notin dbMatches
                  /\ detailCalls[m] > 0 => m \in seen_matches
                  /\ \A w \in Workers : last_valid_match[w] # m
          /\ \A w \in Workers :
               (phase[w] = "REFILLING" /\ pc[w] \in {"aph_lookup", "aph_history"})
               => /\ last_valid_match[w] # NoMatch
                  /\ name[w] \in Range(MatchPlayers(last_valid_match[w])))
    /\ [][\A w \in Workers :
            (run' = run /\ last_valid_match'[w] # last_valid_match[w])
            => /\ pc[w] = "fetch"
               /\ last_valid_match'[w] = match[w]
               /\ Eligible(match[w])']_vars

\* A worker that accepted match 1 and then dequeued and rejected match 2
\* refills: it expands a participant of match 1.
C13_Witness ==
    \E w \in Workers :
        /\ phase[w] = "REFILLING"
        /\ pc[w] = "aph_lookup"
        /\ last_valid_match[w] # NoMatch
        /\ match[w] # last_valid_match[w]
        /\ served[match[w]] # "none"
        /\ ~Eligible(match[w])
        /\ match[w] \in seen_matches
        /\ match[w] \notin dbMatches

\* C16: during a run no step removes an element of seen_matches,
\* seen_players or seen_masteries, and every id a step appends to a pending
\* queue is outside seen_matches when it is appended.
C16_SeenSetsOnlyGrow ==
    [][run' = run =>
         /\ seen_matches \subseteq seen_matches'
         /\ seen_players \subseteq seen_players'
         /\ seen_masteries \subseteq seen_masteries'
         /\ \A w \in Workers :
              \A i \in (Len(match_ids[w]) + 1)..Len(match_ids'[w]) :
                  match_ids'[w][i] \notin seen_matches]_vars

\* A worker has just seeded from a player whose history holds a seen and an
\* unseen match: only the unseen one is pending.
C16_Witness ==
    \E w \in Workers : \E m \in MatchIds :
        /\ pc[w] = "pop"
        /\ match[w] = NoMatch
        /\ name[w] = seed[w]
        /\ m \in seen_matches
        /\ m \in Range(History(name[w]))
        /\ m \notin Range(match_ids[w])
        /\ match_ids[w] # <<>>
        /\ Range(match_ids[w]) \cap seen_matches = {}
        /\ run = 1

RemoteCalls == {"get_player_info_by_summoner_name", "get_matches_by_puuid",
                "get_match_by_match_id", "get_champion_mastery"}

\* k transient statuses (k <= REQUEST_RETRY_COUNT) and then a 200.
TransientThenSuccess(statuses) ==
    /\ Len(statuses) \in 1..(REQUEST_RETRY_COUNT + 1)
    /\ statuses[Len(statuses)] = 200
    /\ \A i \in 1..(Len(statuses) - 1) : statuses[i] \in TransientStatuses

\* C11: one call of get_with_retry sends at most 1 + REQUEST_RETRY_COUNT
\* requests, each but the last answered by 429, 500 or 503; a match-detail
\* fetch answered by k <= 5 transient statuses and then a success with an
\* eligible payload makes the match the worker's last_valid_match and inserts
\* its Matches row, which was not there before (a failure of the store
\* excepted).
C11_RetryBoundedThenProcessed ==
    /\ [](\A w \in Workers :
            lastCall[w].op \in RemoteCalls
            => /\ Len(lastCall[w].statuses) \in 1..(1 + REQUEST_RETRY_COUNT)
               /\ \A i \in 1..(Len(lastCall[w].statuses) - 1) :
                      lastCall[w].statuses[i] \in TransientStatuses)
    /\ [][\A w \in Workers :
            (/\ pc[w] = "fetch"
             /\ pc'[w] # "fetch"
             /\ TransientThenSuccess(lastCall'[w].statuses)
             /\ Eligible(match[w])')
            => /\ last_valid_match'[w] = match[w]
               /\ \/ lastCall'[w].result = "DBError"
                  \/ /\ pc'[w] = "pm_loop"
                     /\ match[w] \notin dbMatches
                     /\ match[w] \in dbMatches'
                     /\ detailCalls'[match[w]] = 1]_vars

\* A detail fetch that needed every retry (5 transient answers, then 200) and
\* whose match is stored and being processed.
C11_Witness ==
    \E w \in Workers :
        /\ lastCall[w].op = "get_match_by_match_id"
        /\ Len(lastCall[w].statuses) = REQUEST_RETRY_COUNT + 1
        /\ TransientThenSuccess(lastCall[w].statuses)
        /\ pc[w] = "pm_loop"
        /\ match[w] \in dbMatches
        /\ last_valid_match[w] = match[w]

\* C15: process_match called for a match id whose Matches row exists raises
\* no error.
C15_SecondInsertSilent ==
    \A w \in Workers :
        lastCall[w].op = "process_match" => lastCall[w].result # "IntegrityError"

\* Line 396: the names of the participants the refill of worker w loops over.
RefillNames(w) ==
    LET parts == Payload(last_valid_match[w],
                         served[last_valid_match[w]]).participants IN
    [i \in DOMAIN parts |-> parts[i].summonerName]

AtAcquire == {"start", "check", "refill_acquire"}

\* C21: no worker has ended its thread while holding the lock, and no worker
\* is about to acquire the lock while it already holds it.
C21_AcquireThenRelease ==
    \A w \in Workers : pc[w] \in AtAcquire \cup {"dead"} => lock # w

\* Worker w is between an empty pop and a refill of the participants of its
\* last accepted match, all of which are in seen_players.
Spinning(w) ==
    /\ pc[w] \in {"pop", "refill_acquire", "refill_loop"}
    /\ pc[w] = "refill_loop" => lock = w
    /\ match_ids[w] = <<>>
    /\ ~exiting[w]
    /\ last_valid_match[w] # NoMatch
    /\ Range(RefillNames(w)) \subseteq seen_players

\* C22: no running worker is left with an empty queue that its refill cannot
\* fill, popping from the empty queue and refilling nothing in turn.
C22_NoEmptySpin ==
    \A w \in Workers : ~Spinning(w)

\* C23: every match id with a row in Matches is in seen_matches and every
\* name with a row in SeenPlayers is in seen_players.
C23_SeenSetsCoverStore ==
    /\ dbMatches \subseteq seen_matches
    /\ dbSeenPlayers \subseteq seen_players

\* A run started from a store with rows, in which a worker has added a
\* SeenPlayers row of its own.
C23_Witness ==
    /\ run > 1
    /\ bootMatches # {}
    /\ \E w \in Workers :
         /\ pc[w] = "aph_history"
         /\ name[w] \in dbSeenPlayers
         /\ name[w] \in seen_players

====
